---------------------------- MODULE Spec2Model ----------------------------
(***************************************************************************)
(* A model of strawberry/relay/types.py: the GlobalID value and its codec, *)
(* the per-schema type cache of GlobalID.resolve_type, the synchronous and *)
(* deferred paths of GlobalID.resolve_node and Node.id, and the Relay      *)
(* window computation of Connection.from_nodes.                            *)
(*                                                                         *)
(* Python values are records tagged by "kind".  A Python str is a sequence *)
(* of one-character strings; a str that is the base64 text of a payload is *)
(* kept as that payload under the field "b64" (base64 is a bijection       *)
(* between payloads and their texts, and no plain str of the model is the  *)
(* base64 text of anything).                                               *)
(***************************************************************************)
EXTENDS Integers, Sequences, FiniteSets, TLC

VARIABLES page,     \* the latest Connection.from_nodes call: its arguments and outcome
          trav,     \* a forward traversal: repeated from_nodes calls chained by end_cursor
          gid,      \* the latest GlobalID operation: construction, str(), from_id
          rn,       \* a GlobalID.resolve_node call, possibly with a pending coroutine
          nid,      \* a Node.id call, possibly with a pending coroutine
          cache,    \* GlobalID._nodes_cache: (id(schema), type_name) -> type
          threads,  \* the concurrent GlobalID.resolve_type calls
          heap      \* per address: the schema objects allocated there, and whether one lives

vars == <<page, trav, gid, rn, nid, cache, threads, heap>>

---------------------------------------------------------------------------
(* Bounds of the model *)

\* plain strings have at most this many characters
MaxStrLen == 2
\* small collections have 0..MaxSmall items; small offsets and page sizes are 0..MaxSmall
MaxSmall == 3
\* large collections have up to max_results + MaxOver items
MaxOver == 2
\* integer ids produced by resolve_id lie in -1..MaxIntId
MaxIntId == 11
\* number of concurrent resolve_type calls
MaxThreads == 2
\* number of schemas created after the start
MaxCreated == 1

---------------------------------------------------------------------------
(* Python values *)

PyNone == [kind |-> "none"]
PyInt(i) == [kind |-> "int", n |-> i]
PyStr(s) == [kind |-> "str", chars |-> s]
PyFloat(i) == [kind |-> "float", n |-> i]
PyUUID(h) == [kind |-> "uuid", hex |-> h]
\* the str whose text is the base64 encoding of payload s
B64Text(s) == [kind |-> "str", b64 |-> s]

IsNone(v) == v.kind = "none"
IsInt(v) == v.kind = "int"
IsStr(v) == v.kind = "str"
IsB64(v) == v.kind = "str" /\ "b64" \in DOMAIN v

Min(a, b) == IF a <= b THEN a ELSE b
Max(a, b) == IF a >= b THEN a ELSE b
Abs(a) == IF a < 0 THEN 0 - a ELSE a

Digits == <<"0", "1", "2", "3", "4", "5", "6", "7", "8", "9">>

RECURSIVE NatToStr(_)
NatToStr(i) ==
    IF i < 10 THEN <<Digits[i + 1]>>
    ELSE NatToStr(i \div 10) \o <<Digits[(i % 10) + 1]>>

\* str(i) of a Python int
IntToStr(i) == IF i < 0 THEN <<"-">> \o NatToStr(0 - i) ELSE NatToStr(i)

DigitValue(c) == CHOOSE d \in 0..9 : Digits[d + 1] = c
IsDigit(c) == \E d \in 1..10 : Digits[d] = c

RECURSIVE DigitsToNat(_)
DigitsToNat(s) ==
    IF Len(s) = 1 THEN DigitValue(s[1])
    ELSE 10 * DigitsToNat(SubSeq(s, 1, Len(s) - 1)) + DigitValue(s[Len(s)])

AllDigits(s) == Len(s) > 0 /\ \A i \in 1..Len(s) : IsDigit(s[i])

\* int(s) of a Python str: PyInt, or PyNone where int() raises ValueError
StrToInt(s) ==
    IF AllDigits(s) THEN PyInt(DigitsToNat(s))
    ELSE IF Len(s) > 1 /\ s[1] \in {"-", "+"} /\ AllDigits(Tail(s))
         THEN PyInt((IF s[1] = "-" THEN -1 ELSE 1) * DigitsToNat(Tail(s)))
         ELSE PyNone

\* str(u) of a uuid.UUID: the 32 hex digits grouped 8-4-4-4-12
UUIDToStr(h) ==
    SubSeq(h, 1, 8) \o <<"-">> \o SubSeq(h, 9, 12) \o <<"-">> \o SubSeq(h, 13, 16)
        \o <<"-">> \o SubSeq(h, 17, 20) \o <<"-">> \o SubSeq(h, 21, 32)

\* str(v), as an f-string formats v; defined for the kinds the model formats
PyFormat(v) ==
    CASE v.kind = "str" /\ ~IsB64(v) -> v.chars
      [] v.kind = "int" -> IntToStr(v.n)
      [] v.kind = "uuid" -> UUIDToStr(v.hex)
      [] v.kind = "none" -> <<"N", "o", "n", "e">>

\* bool(v)
Truthy(v) ==
    CASE v.kind = "none" -> FALSE
      [] v.kind = "int" -> v.n # 0
      [] v.kind = "str" -> IF IsB64(v) THEN v.b64 # <<>> ELSE v.chars # <<>>
      [] OTHER -> TRUE

---------------------------------------------------------------------------
(* relay/utils.py: to_base64 and from_base64 *)

Separator == ":"

\* to_base64(type_, node_id): base64 of "<type_>:<node_id>"
to_base64(type_, node_id) == B64Text(type_ \o <<Separator>> \o PyFormat(node_id))

\* position of the first separator of s, 0 when there is none
FirstSep(s) ==
    IF \E i \in 1..Len(s) : s[i] = Separator
    THEN CHOOSE i \in 1..Len(s) : s[i] = Separator /\ \A j \in 1..(i - 1) : s[j] # Separator
    ELSE 0

\* from_base64(value): [ok |-> TRUE, type_name, node_id], or [ok |-> FALSE] for ValueError
from_base64(value) ==
    IF ~IsB64(value) THEN [ok |-> FALSE]
    ELSE LET s == value.b64
             p == FirstSep(s)
         IN  IF p = 0 \/ p = 1 \/ p = Len(s) THEN [ok |-> FALSE]
             ELSE [ok |-> TRUE, type_name |-> SubSeq(s, 1, p - 1),
                   node_id |-> SubSeq(s, p + 1, Len(s))]


---------------------------------------------------------------------------
(* GlobalID *)

\* an exception raised to the caller
Raise(exc) == [status |-> exc]

\* __post_init__ without its check of node_id
GlobalID_NoNodeIdCheck(t, v) ==
    IF ~IsStr(t) THEN Raise("GlobalIDValueError")
    ELSE [status |-> "ok", type_name |-> t, node_id |-> v]

\* GlobalID(type_name=t, node_id=v): the dataclass and its __post_init__
GlobalID(t, v) ==
    IF ~IsStr(t) THEN Raise("GlobalIDValueError")
    ELSE IF ~IsStr(v) THEN Raise("GlobalIDValueError")
    ELSE [status |-> "ok", type_name |-> t, node_id |-> v]

\* __str__ with the two fields in the wrong order
GlobalID_str_Swapped(g) == to_base64(PyFormat(g.node_id), g.type_name)

\* GlobalID.__str__
GlobalID_str(g) == to_base64(PyFormat(g.type_name), g.node_id)

\* GlobalID.from_id
from_id(value) ==
    LET r == from_base64(value)
    IN  IF ~r.ok THEN Raise("GlobalIDValueError")
        ELSE GlobalID(PyStr(r.type_name), PyStr(r.node_id))

---------------------------------------------------------------------------
(* Connection.from_nodes *)

connection_typename ==
    <<"a", "r", "r", "a", "y", "c", "o", "n", "n", "e", "c", "t", "i", "o", "n">>

\* max_results, "TODO: This should be configurable"
max_results == 100

\* sys.maxsize: only compared and passed to min(), never added to; it stands
\* here as the largest integer TLC represents, above every offset that occurs
sys_maxsize == 2147483647

\* the source collection of n items: the item at 0-based offset j is j + 1
Collection(n) == [i \in 1..n |-> i]

\* the forms a collection is supplied in
\*   sequence: a list or tuple (len, __getitem__; its count() needs an argument)
\*   sized:    a set-like container (len, no __getitem__, no count)
\*   iterable: a generator (neither)
\*   queryset: an ORM query (count(), __getitem__)
Forms == {"sequence", "sized", "iterable", "queryset"}

HasCount(form) == form = "queryset"
IsSized(form) == form \in {"sequence", "sized"}
HasGetItem(form) == form \in {"sequence", "queryset"}

\* Edge.from_node
Edge_from_node(node, cursor) ==
    [cursor |-> to_base64(connection_typename, PyInt(cursor)), node |-> node]

\* seq[start:stop] of a sequence: negative indices count from the end, and
\* both are clamped to the length
PySlice(seq, start, stop) ==
    LET len == Len(seq)
        lo == IF start < 0 THEN Max(len + start, 0) ELSE Min(start, len)
        hi == IF IsNone(stop) THEN len
              ELSE IF stop.n < 0 THEN Max(len + stop.n, 0) ELSE Min(stop.n, len)
    IN  IF lo >= hi THEN <<>> ELSE SubSeq(seq, lo + 1, hi)

\* itertools.islice(seq, start, stop), start >= 0 and stop >= 0 or None: the
\* items consumed at positions start .. stop - 1, as far as seq goes
ISlice(seq, start, stop) ==
    LET last == IF IsNone(stop) THEN Len(seq) ELSE Min(stop.n, Len(seq))
    IN  [i \in 1..Max(last - start, 0) |-> seq[start + i]]

\* a cursor argument parsed: [ok |-> TRUE, offset], or the exception raised
ParseCursor(tok) ==
    LET r == from_base64(tok)
    IN  IF ~r.ok THEN [ok |-> FALSE, exc |-> "ValueError"]
        ELSE IF r.type_name # connection_typename
        THEN [ok |-> FALSE, exc |-> "AssertionError"]
        ELSE LET i == StrToInt(r.node_id)
             IN  IF IsNone(i) THEN [ok |-> FALSE, exc |-> "ValueError"]
                 ELSE [ok |-> TRUE, offset |-> i.n]

\* start = int(after_parsed): the page begins at the cursor's own item
AfterStart_AtCursor(offset) == offset

\* start = int(after_parsed) + 1
AfterStart(offset) == offset + 1

\* total_count as from_nodes first derives it
DeriveTotalCount(n, form, total_count) ==
    IF ~IsNone(total_count) THEN total_count
    ELSE IF HasCount(form) THEN PyInt(n)
    ELSE IF IsSized(form) THEN PyInt(n)
    ELSE PyNone

\* the window after the `first` block: end = min(end, start + first)
ApplyFirst(w, first) ==
    IF IsInt(first) THEN [w EXCEPT !.end = PyInt(Min(w.end.n, w.start + first.n))]
    ELSE w

\* the window after the `last` block
ApplyLast(w, last, n) ==
    IF ~IsInt(last) THEN w
    ELSE IF w.end = PyInt(sys_maxsize)
    THEN LET tc == IF IsNone(w.total_count) THEN PyInt(n) ELSE w.total_count
         IN  [w EXCEPT !.total_count = tc,
                       !.listed = IsNone(w.total_count),
                       !.start = Max(w.start, tc.n - last.n),
                       !.end = PyNone]
    ELSE [w EXCEPT !.start = Max(w.start, w.end.n - last.n)]

\* "If at this point end is still inf, consider it to be start + max_results"
DefaultEnd(w) ==
    IF w.end = PyInt(sys_maxsize) THEN [w EXCEPT !.end = PyInt(w.start + max_results)]
    ELSE w

\* expected with no clamp of the window
ClampWindow_NoClamp(w) ==
    [start |-> w.start, end |-> w.end,
     expected |-> IF ~IsNone(w.end) THEN w.end.n - w.start ELSE Abs(w.start),
     total_count |-> w.total_count, listed |-> w.listed]

\* expected, and the clamp of the window to max_results
ClampWindow(w) ==
    LET expected == IF ~IsNone(w.end) THEN w.end.n - w.start ELSE Abs(w.start)
    IN  IF expected > max_results
        THEN [start |-> w.start, end |-> PyInt(w.start + max_results),
              expected |-> max_results, total_count |-> w.total_count, listed |-> w.listed]
        ELSE [start |-> w.start, end |-> w.end,
              expected |-> expected, total_count |-> w.total_count, listed |-> w.listed]

\* the edges, the removal of the overfetched one, and the page
BuildPage(w, n, form) ==
    LET stop == IF IsNone(w.end) THEN PyNone ELSE PyInt(w.end.n + 1)
        items == IF HasGetItem(form) \/ w.listed
                 THEN PySlice(Collection(n), w.start, stop)
                 ELSE ISlice(Collection(n), w.start, stop)
        fetched == [i \in 1..Len(items) |-> Edge_from_node(items[i], w.start + i - 1)]
        over == Len(fetched) = w.expected + 1
        edges == IF over /\ Len(fetched) > 0
                 THEN SubSeq(fetched, 1, Len(fetched) - 1)
                 ELSE fetched
    IN  [status |-> "ok",
         edges |-> edges,
         page_info |-> [start_cursor |-> IF Len(edges) > 0 THEN edges[1].cursor ELSE PyNone,
                        end_cursor |-> IF Len(edges) > 0 THEN edges[Len(edges)].cursor
                                       ELSE PyNone,
                        has_previous_page |-> w.start > 0,
                        has_next_page |-> over],
         total_count |-> w.total_count]

\* the bounds check without its test for a negative argument
OutOfRange_NoNegative(arg) == IsInt(arg) /\ arg.n > max_results

\* the bounds check of `first` and of `last`: TRUE when the argument is rejected
OutOfRange(arg) == IsInt(arg) /\ (arg.n < 0 \/ arg.n > max_results)

\* Connection.from_nodes on a collection of n items in the given form
from_nodes(n, form, total_count, before, after, first, last) ==
    LET tc == DeriveTotalCount(n, form, total_count)
        a == IF Truthy(after) THEN ParseCursor(after) ELSE [ok |-> TRUE, offset |-> -1]
        b == IF Truthy(before) THEN ParseCursor(before) ELSE [ok |-> TRUE, offset |-> -1]
    IN  IF ~a.ok THEN Raise(a.exc)
        ELSE IF ~b.ok THEN Raise(b.exc)
        ELSE IF OutOfRange(first) THEN Raise("ValueError")
        ELSE IF OutOfRange(last) THEN Raise("ValueError")
        ELSE LET w0 == [start |-> IF Truthy(after) THEN AfterStart(a.offset) ELSE 0,
                        end |-> IF Truthy(before) THEN PyInt(b.offset)
                                ELSE IF ~IsNone(tc) THEN tc ELSE PyInt(sys_maxsize),
                        total_count |-> tc,
                        listed |-> FALSE]
             IN  BuildPage(ClampWindow(DefaultEnd(ApplyLast(ApplyFirst(w0, first), last, n))), n, form)

---------------------------------------------------------------------------
(* The calls of Connection.from_nodes *)

\* the cursor the engine produces for an offset
CursorOf(k) == to_base64(connection_typename, PyInt(k))

Sizes == (0..MaxSmall) \cup ((max_results - 1)..(max_results + MaxOver))
Offsets == (0..MaxSmall) \cup {max_results - 1, max_results}
Cursors == {PyNone} \cup {CursorOf(k) : k \in Offsets}
Limits == {PyNone} \cup {PyInt(i) : i \in (-1..MaxSmall) \cup ((max_results - 1)..(max_results + 1))}
\* total_count is passed by the caller (the true count) or left out
TotalCounts(n, form) == IF form = "iterable" THEN {PyNone, PyInt(n)} ELSE {PyNone}

\* tokens this engine never produced: a plain str, a token with no separator,
\* a GlobalID token, a cursor whose offset is not a number
ForeignTokens ==
    {PyStr(<<"a">>), B64Text(<<"a">>), to_base64(<<"a">>, PyInt(1)),
     to_base64(connection_typename, PyStr(<<"a">>))}

Idle == [op |-> "idle"]

FromNodesCall ==
    /\ page = Idle
    /\ \E n \in Sizes, form \in Forms, before \in Cursors, after \in Cursors,
       first \in Limits, last \in Limits :
      \E total_count \in TotalCounts(n, form) :
        /\ page' = [op |-> "from_nodes", n |-> n, form |-> form,
                    total_count |-> total_count, before |-> before, after |-> after,
                    first |-> first, last |-> last,
                    result |-> from_nodes(n, form, total_count, before, after, first, last)]
        /\ UNCHANGED <<trav, gid, rn, nid, cache, threads, heap>>

FromNodesForeignCursor ==
    /\ page = Idle
    /\ \E n \in 0..MaxSmall, form \in Forms, tok \in ForeignTokens, asAfter \in BOOLEAN :
        /\ page' = [op |-> "from_nodes", n |-> n, form |-> form,
                    total_count |-> PyNone,
                    before |-> IF asAfter THEN PyNone ELSE tok,
                    after |-> IF asAfter THEN tok ELSE PyNone,
                    first |-> PyNone, last |-> PyNone,
                    result |-> from_nodes(n, form, PyNone,
                                          IF asAfter THEN PyNone ELSE tok,
                                          IF asAfter THEN tok ELSE PyNone, PyNone, PyNone)]
        /\ UNCHANGED <<trav, gid, rn, nid, cache, threads, heap>>

---------------------------------------------------------------------------
(* A forward traversal: first = k, then first = k, after = <end_cursor> *)

PageSizes == (1..MaxSmall) \cup {max_results - 1, max_results}

\* the nodes of a page's edges, in order
EdgeNodes(edges) == [i \in 1..Len(edges) |-> edges[i].node]

TraverseFirst ==
    /\ trav = Idle
    /\ \E n \in Sizes, form \in Forms, k \in PageSizes :
         LET r == from_nodes(n, form, PyNone, PyNone, PyNone, PyInt(k), PyNone)
         IN  trav' = [op |-> "traverse", n |-> n, form |-> form, k |-> k, calls |-> 1,
                      status |-> r.status,
                      nodes |-> IF r.status = "ok" THEN EdgeNodes(r.edges) ELSE <<>>,
                      page_info |-> IF r.status = "ok" THEN r.page_info ELSE PyNone,
                      flags |-> IF r.status = "ok"
                                THEN <<[next |-> r.page_info.has_next_page,
                                        prev |-> r.page_info.has_previous_page]>>
                                ELSE <<>>]
    /\ UNCHANGED <<page, gid, rn, nid, cache, threads, heap>>

TraverseNext ==
    /\ trav # Idle
    /\ trav.status = "ok"
    /\ trav.page_info.has_next_page
    /\ LET r == from_nodes(trav.n, trav.form, PyNone, PyNone,
                           trav.page_info.end_cursor, PyInt(trav.k), PyNone)
       IN  trav' = [trav EXCEPT
                      !.calls = @ + 1,
                      !.status = r.status,
                      !.nodes = IF r.status = "ok" THEN @ \o EdgeNodes(r.edges) ELSE @,
                      !.page_info = IF r.status = "ok" THEN r.page_info ELSE PyNone,
                      !.flags = IF r.status = "ok"
                                THEN Append(@, [next |-> r.page_info.has_next_page,
                                               prev |-> r.page_info.has_previous_page])
                                ELSE @]
    /\ UNCHANGED <<page, gid, rn, nid, cache, threads, heap>>

---------------------------------------------------------------------------
(* The operations on GlobalID values *)

Alphabet == {"a", Separator}

\* the strings over Alphabet of length 0..len
RECURSIVE StringsUpTo(_)
StringsUpTo(len) ==
    IF len = 0 THEN {<<>>}
    ELSE LET shorter == StringsUpTo(len - 1)
         IN  shorter \cup {Append(s, c) : s \in shorter, c \in Alphabet}

PlainStrings == {PyStr(s) : s \in StringsUpTo(MaxStrLen)}
FieldValues == PlainStrings \cup {PyNone, PyInt(0), PyInt(7)}
\* values handed to from_id that str(GlobalID) may or may not have produced
Tokens == PlainStrings \cup {PyNone} \cup {B64Text(s) : s \in StringsUpTo(MaxStrLen + 1)}

\* GlobalID(type_name=t, node_id=v)
GidNew ==
    /\ gid = Idle
    /\ \E t \in FieldValues, v \in FieldValues :
         gid' = [op |-> "new", type_name |-> t, node_id |-> v, result |-> GlobalID(t, v)]
    /\ UNCHANGED <<page, trav, rn, nid, cache, threads, heap>>

\* str(g) of the value just built
GidStr ==
    /\ gid # Idle
    /\ gid.op = "new"
    /\ gid.result.status = "ok"
    /\ gid' = [op |-> "str", source |-> gid.result, token |-> GlobalID_str(gid.result)]
    /\ UNCHANGED <<page, trav, rn, nid, cache, threads, heap>>

\* GlobalID.from_id of the token just produced
GidFromOwnToken ==
    /\ gid # Idle
    /\ gid.op = "str"
    /\ gid' = [op |-> "from_id", own |-> TRUE, source |-> gid.source, token |-> gid.token,
               result |-> from_id(gid.token)]
    /\ UNCHANGED <<page, trav, rn, nid, cache, threads, heap>>

\* GlobalID.from_id of any value
GidFromId ==
    /\ gid = Idle
    /\ \E tok \in Tokens :
         gid' = [op |-> "from_id", own |-> FALSE, token |-> tok, result |-> from_id(tok)]
    /\ UNCHANGED <<page, trav, rn, nid, cache, threads, heap>>

---------------------------------------------------------------------------
(* GlobalID.resolve_type and the type cache *)

\* the addresses a schema object may be allocated at
Addresses == {"addr1", "addr2", "addr3"}

\* a schema object: the serial-th one allocated at its address
SchemaAt(addr, serial) == [addr |-> addr, serial |-> serial]

\* the schemas that live from the start
Schemas == {SchemaAt("addr1", 0), SchemaAt("addr2", 0)}

\* id(schema): the address of the object, unique among the objects that live
\* at the same time
SchemaId(schema) == schema.addr

\* the schema objects alive now
LiveSchemas == {SchemaAt(a, heap[a].serial) : a \in {b \in Addresses : heap[b].live}}

\* Fruit: a Node type.  LazyFruit: a Node type declared through a LazyType.
\* Plain: an object type that is no Node.  Color: an enum (no TypeDefinition).
\* Ghost: a name the schema does not know.
NodeTypeNames == {"Fruit", "LazyFruit"}
TypeNames == NodeTypeNames \cup {"Plain", "Color", "Ghost"}

Class(schema, name) == [kind |-> "class", name |-> name, schema |-> schema]
LazyType(schema, name) == [kind |-> "lazy", name |-> name, schema |-> schema]

\* schema.get_type_by_name(name)
get_type_by_name(schema, name) ==
    CASE name = "Fruit" -> [kind |-> "TypeDefinition", origin |-> Class(schema, name)]
      [] name = "LazyFruit" -> [kind |-> "TypeDefinition", origin |-> LazyType(schema, name)]
      [] name = "Plain" -> [kind |-> "TypeDefinition", origin |-> Class(schema, name)]
      [] name = "Color" -> [kind |-> "EnumDefinition"]
      [] OTHER -> PyNone

\* issubclass(origin, Node)
IsNodeClass(origin) == origin.kind = "class" /\ origin.name \in NodeTypeNames

\* the miss path of resolve_type up to the store: the origin, or PyNone where
\* an assertion fails
LookupOrigin(schema, name) ==
    LET type_def == get_type_by_name(schema, name)
    IN  IF type_def.kind # "TypeDefinition" THEN PyNone
        ELSE LET origin == IF type_def.origin.kind = "lazy"
                           THEN Class(type_def.origin.schema, type_def.origin.name)
                           ELSE type_def.origin
             IN  IF IsNodeClass(origin) THEN origin ELSE PyNone

CacheKeys == {<<addr, name>> : addr \in Addresses, name \in TypeNames}
EmptyCache == [key \in CacheKeys |-> PyNone]

\* a store that replaces the whole cache by the one new entry
CacheStore_Replace(c, key, origin) == [k \in CacheKeys |-> IF k = key THEN origin ELSE PyNone]

\* self._nodes_cache[key] = origin
CacheStore(c, key, origin) == [c EXCEPT ![key] = origin]

\* resolve_type run without interruption: the type returned (PyNone for an
\* AssertionError) and the cache it leaves
resolve_type(c, schema, name) ==
    LET key == <<SchemaId(schema), name>>
        hit == c[key]
    IN  IF ~IsNone(hit) THEN [origin |-> hit, cache |-> c]
        ELSE LET origin == LookupOrigin(schema, name)
             IN  IF IsNone(origin) THEN [origin |-> PyNone, cache |-> c]
                 ELSE [origin |-> origin, cache |-> CacheStore(c, key, origin)]

Threads == 1..MaxThreads
IdleThread == [pc |-> "idle"]

\* a thread enters resolve_type: key = (id(schema), self.type_name)
ThreadCall(t) ==
    /\ threads[t].pc = "idle"
    /\ \E schema \in LiveSchemas, name \in TypeNames :
         threads' = [threads EXCEPT ![t] = [pc |-> "get", schema |-> schema, name |-> name,
                                            key |-> <<SchemaId(schema), name>>]]
    /\ UNCHANGED <<page, trav, gid, rn, nid, cache, heap>>

\* origin = self._nodes_cache.get(key)
ThreadGet(t) ==
    /\ threads[t].pc = "get"
    /\ LET origin == cache[threads[t].key]
       IN  threads' = [threads EXCEPT ![t] =
                         [pc |-> IF IsNone(origin) THEN "lookup" ELSE "done",
                          schema |-> threads[t].schema, name |-> threads[t].name,
                          key |-> threads[t].key, origin |-> origin]]
    /\ UNCHANGED <<page, trav, gid, rn, nid, cache, heap>>

\* the type definition, the lazy type resolved, the assertions
ThreadLookup(t) ==
    /\ threads[t].pc = "lookup"
    /\ LET origin == LookupOrigin(threads[t].schema, threads[t].name)
       IN  threads' = [threads EXCEPT ![t].origin = origin,
                                      ![t].pc = IF IsNone(origin) THEN "failed" ELSE "store"]
    /\ UNCHANGED <<page, trav, gid, rn, nid, cache, heap>>

\* self._nodes_cache[key] = origin; return origin
ThreadStore(t) ==
    /\ threads[t].pc = "store"
    /\ cache' = CacheStore(cache, threads[t].key, threads[t].origin)
    /\ threads' = [threads EXCEPT ![t].pc = "done"]
    /\ UNCHANGED <<page, trav, gid, rn, nid, heap>>

\* the caller takes the result (or the AssertionError); the thread is free again
ThreadReturn(t) ==
    /\ threads[t].pc \in {"done", "failed"}
    /\ threads' = [threads EXCEPT ![t] = IdleThread]
    /\ UNCHANGED <<page, trav, gid, rn, nid, cache, heap>>

---------------------------------------------------------------------------
(* The lifetime of schema objects *)

\* the last reference to the schema at addr goes away and the object is
\* collected; no call in progress holds it.  The cache is left as it is.
SchemaDiscard(addr) ==
    /\ heap[addr].live
    /\ \A t \in Threads : threads[t].pc # "idle" => SchemaId(threads[t].schema) # addr
    /\ heap' = [heap EXCEPT ![addr].live = FALSE]
    /\ UNCHANGED <<page, trav, gid, rn, nid, cache, threads>>

\* the number of schema objects allocated after the start, over the addresses in S
RECURSIVE Created(_)
Created(S) ==
    IF S = {} THEN 0
    ELSE LET a == CHOOSE b \in S : TRUE
         IN heap[a].serial + Created(S \ {a})

\* a new schema object is allocated at any address no live object occupies:
\* one never used, or one a collected schema had
SchemaCreate(addr) ==
    /\ ~heap[addr].live
    /\ Created(Addresses) < MaxCreated
    /\ heap' = [heap EXCEPT ![addr] = [serial |-> heap[addr].serial + 1, live |-> TRUE]]
    /\ UNCHANGED <<page, trav, gid, rn, nid, cache, threads>>

---------------------------------------------------------------------------
(* GlobalID.resolve_node *)

\* the classes of the entities a resolve_node callback produces; Apple is a
\* subclass of Fruit
EntityClasses == {"Fruit", "Apple", "Car"}
Superclasses(c) == IF c = "Apple" THEN {"Apple", "Fruit"} ELSE {c}

Entity(c) == [kind |-> "obj", cls |-> c]

\* the values of ensure_type: absent, a class, Awaitable[class], Union[...]
Expect(classes) == [kind |-> "type", classes |-> classes]
ExpectAwaitable(classes) == [kind |-> "type", awaitable |-> classes]
EnsureTypes ==
    {PyNone, Expect({"Fruit"}), Expect({"Apple"}), Expect({"Car"}),
     Expect({"Apple", "Car"}), ExpectAwaitable({"Fruit"})}

\* ensure_type with Awaitable[...] unwrapped and a Union turned into a tuple
NormalizeEnsureType(ensure_type) ==
    IF "awaitable" \in DOMAIN ensure_type THEN ensure_type.awaitable
    ELSE ensure_type.classes

\* isinstance(value, classes)
IsInstance(value, classes) ==
    value.kind = "obj" /\ Superclasses(value.cls) \cap classes # {}

\* what the type's resolve_node callback produces: an entity, None, or an
\* exception of its own
CallbackResults == {Entity(c) : c \in EntityClasses} \cup {PyNone, [kind |-> "raise"]}

Returned(value) == [status |-> "ok", value |-> value]

\* the body of the coroutine resolve() once the awaited node produced res
ResolveCoroutine(res, classes) ==
    IF ~IsInstance(res, classes) THEN Raise("TypeError") ELSE Returned(res)

\* await of what resolve_node returned
Await(node) ==
    IF node.inner.kind = "raise" THEN Raise("CallbackError")
    ELSE IF node.kind = "coroutine" THEN ResolveCoroutine(node.inner, node.classes)
    ELSE Returned(node.inner)

\* resolve_node after resolve_type: the callback's node (a value, or an
\* awaitable of it), then the ensure_type check
resolve_node(result, deferred, ensure_type) ==
    IF ~deferred /\ result.kind = "raise" THEN Raise("CallbackError")
    ELSE IF deferred
    THEN IF ~IsNone(ensure_type)
         THEN Returned([kind |-> "coroutine", inner |-> result,
                        classes |-> NormalizeEnsureType(ensure_type)])
         ELSE Returned([kind |-> "awaitable", inner |-> result])
    ELSE IF ~IsNone(result) /\ ~IsNone(ensure_type)
    THEN IF ~IsInstance(result, NormalizeEnsureType(ensure_type))
         THEN Raise("TypeError")
         ELSE Returned(result)
    ELSE Returned(result)

IsPending(outcome) ==
    outcome.status = "ok" /\ outcome.value.kind \in {"coroutine", "awaitable"}

ResolveNodeCall ==
    /\ rn = Idle
    /\ \E schema \in LiveSchemas, name \in TypeNames, required \in BOOLEAN,
          ensure_type \in EnsureTypes, result \in CallbackResults, deferred \in BOOLEAN :
         LET ty == resolve_type(cache, schema, name)
             outcome == IF IsNone(ty.origin) THEN Raise("AssertionError")
                        ELSE resolve_node(result, deferred, ensure_type)
         IN  /\ cache' = ty.cache
             /\ rn' = [op |-> "resolve_node", schema |-> schema, name |-> name,
                       required |-> required \/ ~IsNone(ensure_type),
                       ensure_type |-> ensure_type, result |-> result,
                       deferred |-> deferred,
                       phase |-> IF IsPending(outcome) THEN "pending" ELSE "done",
                       outcome |-> outcome]
    /\ UNCHANGED <<page, trav, gid, nid, threads, heap>>

\* the caller awaits the value resolve_node returned
ResolveNodeAwait ==
    /\ rn # Idle
    /\ rn.phase = "pending"
    /\ rn' = [rn EXCEPT !.phase = "done", !.outcome = Await(rn.outcome.value)]
    /\ UNCHANGED <<page, trav, gid, nid, cache, threads, heap>>

---------------------------------------------------------------------------
(* Node.id *)

HexA == [i \in 1..32 |-> "a"]
HexB == [i \in 1..32 |-> IF i % 2 = 0 THEN "0" ELSE "a"]

\* the ids a resolve_id callback produces
IdValues ==
    PlainStrings \cup {PyInt(i) : i \in -1..MaxIntId} \cup {PyUUID(HexA), PyUUID(HexB)}
        \cup {PyFloat(1), PyNone}

\* the type names resolve_typename produces
IdTypeNames == {PyStr(<<>>), PyStr(<<"a">>)}

\* the coroutine resolve() of Node.id once the awaited id is there
IdCoroutine(type_name, awaited) == GlobalID(type_name, awaited)

\* Node.id from the id and the type name its callbacks produced
Node_id(node_id, deferred, type_name) ==
    IF ~Truthy(type_name) THEN Raise("AssertionError")
    ELSE IF deferred
    THEN [status |-> "ok", kind |-> "coroutine", type_name |-> type_name, inner |-> node_id]
    ELSE IF IsStr(node_id) THEN GlobalID(type_name, node_id)
    ELSE IF node_id.kind \in {"int", "uuid"} THEN GlobalID(type_name, PyStr(PyFormat(node_id)))
    ELSE GlobalID(type_name, node_id)

NodeIdCall ==
    /\ nid = Idle
    /\ \E node_id \in IdValues, deferred \in BOOLEAN, type_name \in IdTypeNames :
         LET outcome == Node_id(node_id, deferred, type_name)
         IN  nid' = [op |-> "id", node_id |-> node_id, deferred |-> deferred,
                     type_name |-> type_name,
                     phase |-> IF "kind" \in DOMAIN outcome THEN "pending" ELSE "done",
                     outcome |-> outcome]
    /\ UNCHANGED <<page, trav, gid, rn, cache, threads, heap>>

\* the caller awaits the coroutine Node.id returned
NodeIdAwait ==
    /\ nid # Idle
    /\ nid.phase = "pending"
    /\ nid' = [nid EXCEPT !.phase = "done",
                          !.outcome = IdCoroutine(nid.outcome.type_name, nid.outcome.inner)]
    /\ UNCHANGED <<page, trav, gid, rn, cache, threads, heap>>

Init ==
    /\ page = Idle
    /\ trav = Idle
    /\ gid = Idle
    /\ rn = Idle
    /\ nid = Idle
    /\ cache = EmptyCache
    /\ threads = [t \in Threads |-> IdleThread]
    /\ heap = [a \in Addresses |-> [serial |-> 0, live |-> SchemaAt(a, 0) \in Schemas]]

Next == FromNodesCall \/ FromNodesForeignCursor

Spec == Init /\ [][Next]_vars

NextTraversal == TraverseFirst \/ TraverseNext

SpecTraversal == Init /\ [][NextTraversal]_vars

NextGlobalID == GidNew \/ GidStr \/ GidFromOwnToken \/ GidFromId

SpecGlobalID == Init /\ [][NextGlobalID]_vars

NextResolveType ==
    \E t \in Threads :
        ThreadCall(t) \/ ThreadGet(t) \/ ThreadLookup(t) \/ ThreadStore(t) \/ ThreadReturn(t)

SpecResolveType == Init /\ [][NextResolveType]_vars

NextSchemaLifetime ==
    \/ NextResolveType
    \/ \E addr \in Addresses : SchemaDiscard(addr) \/ SchemaCreate(addr)

SpecSchemaLifetime == Init /\ [][NextSchemaLifetime]_vars

NextResolveNode == ResolveNodeCall \/ ResolveNodeAwait

SpecResolveNode == Init /\ [][NextResolveNode]_vars

NextNodeId == NodeIdCall \/ NodeIdAwait

SpecNodeId == Init /\ [][NextNodeId]_vars

---------------------------------------------------------------------------
(* Properties of Connection.from_nodes *)

IsCall == page.op = "from_nodes"
AcceptedLimit(arg) == IsNone(arg) \/ (IsInt(arg) /\ arg.n \in 0..max_results)

\* the edges of the items at offsets lo .. hi - 1 of a collection of n items
EdgesOf(n, lo, hi) ==
    [i \in 1..(hi - lo) |-> [cursor |-> CursorOf(lo + i - 1), node |-> Collection(n)[lo + i]]]

\* C1: with only `last = k`, 0 <= k <= 100, on a collection of n items in any
\* form, the page holds exactly the last min(k, n) items in order, each edge
\* with the cursor of its absolute offset, has_next_page is false and
\* has_previous_page is (n > k).
C1_LastOnly ==
    (/\ IsCall
     /\ IsNone(page.before) /\ IsNone(page.after) /\ IsNone(page.first)
     /\ IsInt(page.last) /\ page.last.n \in 0..max_results)
    => /\ page.result.status = "ok"
       /\ page.result.edges = EdgesOf(page.n, page.n - Min(page.last.n, page.n), page.n)
       /\ page.result.page_info.has_next_page = FALSE
       /\ page.result.page_info.has_previous_page = (page.n > page.last.n)

\* C7: an empty collection, with any accepted arguments (first and last absent
\* or in 0..100, before and after absent or a cursor of this engine), yields
\* no edges, both flags false and both cursors absent.
C7_EmptyCollection ==
    (/\ IsCall
     /\ page.n = 0
     /\ page.before \in Cursors /\ page.after \in Cursors
     /\ AcceptedLimit(page.first) /\ AcceptedLimit(page.last))
    => /\ page.result.status = "ok"
       /\ page.result.edges = <<>>
       /\ page.result.page_info.has_next_page = FALSE
       /\ page.result.page_info.has_previous_page = FALSE
       /\ IsNone(page.result.page_info.start_cursor)
       /\ IsNone(page.result.page_info.end_cursor)

\* C9: with valid cursors, from_nodes fails with ValueError and returns no
\* page exactly when `first` or `last` is an integer below 0 or above 100;
\* the values 0..100 are never rejected.
C9_LimitRange ==
    (IsCall /\ page.before \in Cursors /\ page.after \in Cursors)
    => /\ (~AcceptedLimit(page.first) \/ ~AcceptedLimit(page.last))
            => (page.result.status = "ValueError" /\ "edges" \notin DOMAIN page.result)
       /\ (AcceptedLimit(page.first) /\ AcceptedLimit(page.last))
            => page.result.status = "ok"

C9_Witness ==
    /\ IsCall
    /\ page.first = PyInt(max_results)
    /\ page.last = PyInt(-1)
    /\ page.result.status = "ValueError"

\* C10: every page from_nodes returns holds at most 100 edges.
C10_PageBound ==
    (IsCall /\ page.result.status = "ok") => Len(page.result.edges) <= max_results

C10_Witness ==
    /\ IsCall
    /\ page.n > max_results
    /\ IsNone(page.first) /\ IsNone(page.last)
    /\ page.result.status = "ok"
    /\ Len(page.result.edges) = max_results
    /\ page.result.page_info.has_next_page

---------------------------------------------------------------------------
(* Properties of the forward traversal *)

\* max(1, ceil(n / k))
ExpectedCalls(n, k) == Max(1, (n + k - 1) \div k)

\* C2: a forward traversal with page size k over n items ends after
\* max(1, ceil(n / k)) calls; the nodes collected so far are the collection's
\* first min(calls * k, n) items in order (all n, once each, at the end);
\* has_next_page is true on every page but the final one, has_previous_page
\* is false on the first page and true on every later one.
C2_ForwardTraversal ==
    trav.op = "traverse"
    => /\ trav.status = "ok"
       /\ trav.calls <= ExpectedCalls(trav.n, trav.k)
       /\ Len(trav.flags) = trav.calls
       /\ trav.nodes = SubSeq(Collection(trav.n), 1, Min(trav.calls * trav.k, trav.n))
       /\ \A i \in 1..trav.calls :
            /\ trav.flags[i].next = (i < ExpectedCalls(trav.n, trav.k))
            /\ trav.flags[i].prev = (i > 1)
       /\ trav.page_info.has_next_page = (trav.calls < ExpectedCalls(trav.n, trav.k))

C2_Witness ==
    /\ trav.op = "traverse"
    /\ trav.form = "iterable"
    /\ trav.n > max_results
    /\ trav.k > 1
    /\ trav.calls > 2
    /\ ~trav.page_info.has_next_page
    /\ trav.nodes = Collection(trav.n)

---------------------------------------------------------------------------
(* Properties of GlobalID *)

HasSeparator(v) == \E i \in 1..Len(v.chars) : v.chars[i] = Separator
IsRoundTrip == gid.op = "from_id" /\ gid.own

\* C3: for all non-empty strings t and v over an alphabet that includes the
\* separator, from_id(str(GlobalID(t, v))) is GlobalID(t, v).
C3_RoundTrip ==
    (/\ IsRoundTrip
     /\ Truthy(gid.source.type_name) /\ Truthy(gid.source.node_id))
    => gid.result = gid.source

\* C3, amended: the same for every non-empty t that does not contain the
\* separator and every non-empty v, which may contain it.
C3_RoundTripSeparatorFreeType ==
    (/\ IsRoundTrip
     /\ Truthy(gid.source.type_name) /\ Truthy(gid.source.node_id)
     /\ ~HasSeparator(gid.source.type_name))
    => gid.result = gid.source

C3_Witness ==
    /\ IsRoundTrip
    /\ Truthy(gid.source.type_name)
    /\ ~HasSeparator(gid.source.type_name)
    /\ HasSeparator(gid.source.node_id)
    /\ Len(gid.source.node_id.chars) > 1
    /\ gid.result = gid.source

IsNonEmptyStr(v) == IsStr(v) /\ Truthy(v)
YieldsGlobalID == gid.op \in {"new", "from_id"} /\ gid.result.status = "ok"

\* C6: every GlobalID that exists has a non-empty string type_name and
\* node_id; constructing one with a non-string or an empty field fails with
\* GlobalIDValueError and yields no value.
C6_NonEmptyStringFields ==
    /\ YieldsGlobalID
         => IsNonEmptyStr(gid.result.type_name) /\ IsNonEmptyStr(gid.result.node_id)
    /\ (gid.op = "new" /\ (~IsNonEmptyStr(gid.type_name) \/ ~IsNonEmptyStr(gid.node_id)))
         => gid.result = Raise("GlobalIDValueError")

\* C6, amended: every GlobalID that exists has a string type_name and node_id
\* (either may be empty); constructing one with a non-string field fails with
\* GlobalIDValueError and yields no value, and two strings are never rejected.
C6_StringFields ==
    /\ YieldsGlobalID => IsStr(gid.result.type_name) /\ IsStr(gid.result.node_id)
    /\ (gid.op = "new" /\ (~IsStr(gid.type_name) \/ ~IsStr(gid.node_id)))
         => gid.result = Raise("GlobalIDValueError")
    /\ (gid.op = "new" /\ IsStr(gid.type_name) /\ IsStr(gid.node_id))
         => gid.result = [status |-> "ok", type_name |-> gid.type_name,
                          node_id |-> gid.node_id]
    /\ (gid.op = "from_id" /\ gid.result.status # "ok")
         => gid.result = Raise("GlobalIDValueError")

C6_Witness ==
    /\ gid.op = "new"
    /\ IsStr(gid.type_name)
    /\ gid.node_id = PyInt(7)
    /\ gid.result = Raise("GlobalIDValueError")

---------------------------------------------------------------------------
(* Properties of resolve_node and Node.id *)

\* C4: with ensure_type supplied, the caller's final outcome for a callback
\* result r (an entity that satisfies ensure_type, one that does not, or
\* none) is the same whether the callback returned r or a deferred value that
\* resolves to r.
C4_SameOutcomeDeferred ==
    (/\ rn.op = "resolve_node"
     /\ rn.phase = "done"
     /\ rn.name \in NodeTypeNames
     /\ ~IsNone(rn.ensure_type)
     /\ rn.result.kind # "raise")
    => rn.outcome = resolve_node(rn.result, FALSE, rn.ensure_type)

\* C5: whether resolve_id produced the id directly or through a deferred
\* value, a string id gives a GlobalID with that node_id, an integer or UUID
\* id gives a GlobalID with its string form, and any other id fails with
\* GlobalIDValueError.
C5_IdCoercion ==
    (nid.op = "id" /\ nid.phase = "done" /\ Truthy(nid.type_name))
    => nid.outcome =
         IF IsStr(nid.node_id)
         THEN [status |-> "ok", type_name |-> nid.type_name, node_id |-> nid.node_id]
         ELSE IF nid.node_id.kind \in {"int", "uuid"}
         THEN [status |-> "ok", type_name |-> nid.type_name,
               node_id |-> PyStr(PyFormat(nid.node_id))]
         ELSE Raise("GlobalIDValueError")

---------------------------------------------------------------------------
(* Properties of resolve_type *)

\* C8: under any interleaving of resolve_type calls, a cache entry that
\* exists is never removed and never changes, and every call that returns
\* returns the entry the cache holds for its key, so that all calls for one
\* (schema, type_name) return the same type.
C8_CacheStable ==
    [][/\ \A key \in CacheKeys : ~IsNone(cache[key]) => cache'[key] = cache[key]
       /\ \A t \in Threads :
            threads'[t].pc = "done" => threads'[t].origin = cache'[threads'[t].key]]_vars

C8_Witness ==
    \E t1, t2 \in Threads :
        /\ t1 # t2
        /\ threads[t1].pc = "done"
        /\ threads[t2].pc = "store"
        /\ threads[t1].key = threads[t2].key
        /\ ~IsNone(cache[threads[t1].key])

\* C11: after any sequence of resolve_type calls against any number of
\* schemas, schemas created after earlier ones were discarded included,
\* every call that returns returns the type its own schema defines for
\* type_name, never one cached on behalf of another schema object.
C11_OwnSchemaType ==
    \A t \in Threads :
        threads[t].pc = "done"
        => threads[t].origin = LookupOrigin(threads[t].schema, threads[t].name)

=============================================================================
